---- MODULE Spec2Model ----
(***************************************************************************)
(* Model of scripts/init-missing-repos.ts: the script that scaffolds the   *)
(* missing Cloudflare Studio repositories.  One run walks the constant     *)
(* list REPOS_TO_CREATE; for each descriptor it probes the target          *)
(* directory, and when it is missing creates it, runs git, writes the      *)
(* template files, commits and tries to create the GitHub repository.      *)
(* The filesystem, the git state of each directory and the remote          *)
(* repositories survive a run; the console and the position do not.        *)
(***************************************************************************)
EXTENDS Integers, Sequences, FiniteSets, TLC

\* Bounds of the exploration.
MaxMissing == 2   \* at most this many consecutive descriptors lack their directory at first
MaxRuns == 2      \* the script is invoked at most this many times

BASE_DIR == "/Users/andrewpankov/Documents/GitHub/cloudflare-studio"

\* The descriptor list.  An optional `dependencies` is (hasDependencies, dependencies).
REPOS_TO_CREATE ==
  << [name |-> "claude-docs", description |-> "AI-first documentation system for Cloudflare Studio",
      isPrivate |-> FALSE, type |-> "library", hasDependencies |-> FALSE, dependencies |-> <<>>],
     [name |-> ".claude", description |-> "Organization AI brain - Multi-repo Claude context management",
      isPrivate |-> FALSE, type |-> "docs", hasDependencies |-> FALSE, dependencies |-> <<>>],
     [name |-> "billing", description |-> "Billing system with Stripe integration",
      isPrivate |-> TRUE, type |-> "app", hasDependencies |-> TRUE,
      dependencies |-> <<"stripe", "@cloudflare-studio/runtime">>],
     [name |-> "analytics", description |-> "Usage analytics and metrics tracking",
      isPrivate |-> TRUE, type |-> "app", hasDependencies |-> TRUE,
      dependencies |-> <<"@cloudflare/workers-types">>],
     [name |-> "plugin-ai", description |-> "AI-powered automation plugin ($99/month)",
      isPrivate |-> TRUE, type |-> "plugin", hasDependencies |-> TRUE,
      dependencies |-> <<"@cloudflare-studio/plugin-interface", "openai">>],
     [name |-> "plugin-enterprise", description |-> "Enterprise features plugin (custom pricing)",
      isPrivate |-> TRUE, type |-> "plugin", hasDependencies |-> TRUE,
      dependencies |-> <<"@cloudflare-studio/plugin-interface">>],
     [name |-> "infrastructure", description |-> "Our own infrastructure managed by cfstudio",
      isPrivate |-> TRUE, type |-> "config", hasDependencies |-> FALSE, dependencies |-> <<>>],
     [name |-> "runbooks", description |-> "Operational runbooks and workflows",
      isPrivate |-> TRUE, type |-> "config", hasDependencies |-> FALSE, dependencies |-> <<>>],
     [name |-> "monitoring", description |-> "Monitoring and alerting configuration",
      isPrivate |-> TRUE, type |-> "app", hasDependencies |-> TRUE,
      dependencies |-> <<"@cloudflare/workers-types">>] >>

NumRepos == Len(REPOS_TO_CREATE)

RepoPath(config) == BASE_DIR \o "/" \o config.name

Paths == {RepoPath(REPOS_TO_CREATE[i]) : i \in 1..NumRepos}

Range(s) == {s[i] : i \in 1..Len(s)}

\* String.prototype.startsWith
StartsWith(s, prefix) ==
  /\ Len(s) >= Len(prefix)
  /\ SubSeq(s, 1, Len(prefix)) = prefix

VARIABLES
  fs,           \* per target path: the directory, its files and its git state
  remote,       \* per target path: state of cloudflare-studio/<name> on GitHub
  pc,           \* the statement the running script is at
  idx,          \* position of the for-loop of main in REPOS_TO_CREATE
  run,          \* number of the current invocation of the script
  console,      \* lines printed by the current invocation
  exitCode,     \* exit status of the current invocation, -1 while it runs
  effects,      \* history: every filesystem write and command attempted, all runs
  createdInRun, \* history: the run whose mkdir created the directory (0: before any run)
  runLog        \* history: how each finished invocation ended

vars == <<fs, remote, pc, idx, run, console, exitCode, effects, createdInRun, runLog>>

\* A path with no filesystem entry.
Absent ==
  [exists |-> FALSE, foreign |-> FALSE, git |-> FALSE, dirs |-> {}, files |-> <<>>,
   staged |-> FALSE, index |-> <<>>, commits |-> <<>>]

\* A directory that was there before the script ever ran; its content is not the script's.
Foreign == [Absent EXCEPT !.exists = TRUE, !.foreign = TRUE]

cur == REPOS_TO_CREATE[idx]

repoPath == RepoPath(cur)

Line(kind, text) == [kind |-> kind, text |-> text]

Effect(by, op, target, ok) ==
  [run |-> run, repo |-> cur.name, by |-> by, op |-> op, target |-> target, ok |-> ok]

\* The script initializes the repositories that are missing: before its first run a
\* block of consecutive descriptors has no directory yet, the others have theirs.
Init ==
  /\ \E first \in 1..NumRepos, n \in 0..MaxMissing :
     LET missing == {RepoPath(REPOS_TO_CREATE[i]) : i \in first..(first + n - 1)} IN
       /\ first + n - 1 <= NumRepos
       /\ fs = [p \in Paths |-> IF p \in missing THEN Absent ELSE Foreign]
       /\ createdInRun = [p \in Paths |-> IF p \in missing THEN -1 ELSE 0]
  /\ remote = [p \in Paths |-> "none"]
  /\ pc = "main"
  /\ idx = 1
  /\ run = 1
  /\ console = <<>>
  /\ exitCode = -1
  /\ effects = <<>>
  /\ runLog = <<>>

\* ---- file contents, as the templates compute them ----

\* variant: any @cloudflare scope is taken for the organization
DependencyVersionAnyScope(dep) ==
  IF StartsWith(dep, "@cloudflare") THEN "workspace:*" ELSE "latest"

\* createPackageJson: the reduce over config.dependencies
DependencyVersion(dep) ==
  IF StartsWith(dep, "@cloudflare-studio/") THEN "workspace:*" ELSE "latest"

DependencyMap(deps) == [dep \in Range(deps) |-> DependencyVersion(dep)]

PackageJson(config) ==
  [kind |-> "package.json",
   name |-> "@cloudflare-studio/" \o config.name,
   description |-> config.description,
   scripts |-> IF config.type # "config" THEN "dev,build,typecheck,test,test:watch"
               ELSE "validate,deploy",
   private |-> config.isPrivate,
   hasDependencies |-> config.hasDependencies,
   dependencies |-> IF config.hasDependencies THEN DependencyMap(config.dependencies) ELSE <<>>]

TsConfig == [kind |-> "tsconfig.json", strict |-> TRUE, outDir |-> "dist", rootDir |-> "src"]

\* createSourceFiles writes a stub only in these three branches
HasStub(config) == config.type \in {"plugin", "app", "library"}

IndexTs(config) == [kind |-> "src/index.ts", shape |-> config.type, name |-> config.name]

CfstudioYaml(config) ==
  [kind |-> "cfstudio.yaml", name |-> config.name, description |-> config.description]

\* the README written by createConfigFiles
UsageReadme(config) ==
  [kind |-> "README.md", variant |-> "usage", name |-> config.name,
   description |-> config.description, license |-> ""]

Gitignore == [kind |-> ".gitignore"]

CiWorkflow(config) ==
  [kind |-> "ci.yml",
   steps |-> IF config.type # "config" THEN "typecheck,test,build" ELSE "validate"]

\* the README written by createReadme
GeneralReadme(config) ==
  [kind |-> "README.md", variant |-> "general", name |-> config.name,
   description |-> config.description,
   license |-> IF config.isPrivate THEN "Proprietary - Cloudflare Studio Internal" ELSE "MIT"]

CommitMessage(config) ==
  "feat: initial setup for " \o config.name \o "\n\n" \o config.description

GitCommitCmd(config) == "git commit -m \"" \o CommitMessage(config) \o "\""

Visibility(config) == IF config.isPrivate THEN "--private" ELSE "--public"

GhCmd(config) ==
  "gh repo create cloudflare-studio/" \o config.name \o " " \o Visibility(config)
    \o " --description \"" \o config.description \o "\" --push --source ."

\* ---- steps ----

\* variant: the existence check never finds the directory
ExistsNever(p) == FALSE

\* variant: a directory counts as existing only once it holds a commit
ExistsCommitted(p) == fs[p].exists /\ fs[p].commits # <<>>

\* fs.access(repoPath) resolves
Exists(p) == fs[p].exists

\* variant: the remote is created right after git add, before any commit
NextPcPublishFirst(step, config) ==
  CASE step = "mkdir" -> "gitInit"
    [] step = "gitInit" -> IF config.type # "config" THEN "packageJson" ELSE "configYaml"
    [] step = "packageJson" -> "tsConfig"
    [] step = "tsConfig" -> "srcMkdir"
    [] step = "srcMkdir" -> IF config.type \in {"plugin", "app", "library"}
                              THEN "srcIndex" ELSE "gitignore"
    [] step = "srcIndex" -> "gitignore"
    [] step = "configYaml" -> "configReadme"
    [] step = "configReadme" -> "gitignore"
    [] step = "gitignore" -> "workflowsMkdir"
    [] step = "workflowsMkdir" -> "ciYml"
    [] step = "ciYml" -> "readme"
    [] step = "readme" -> "gitAdd"
    [] step = "gitAdd" -> "ghCreate"
    [] step = "gitCommit" -> "ghCreate"

\* the statement that follows `step` in initializeRepo and the create* functions it calls
NextPc(step, config) ==
  CASE step = "mkdir" -> "gitInit"
    [] step = "gitInit" -> IF config.type # "config" THEN "packageJson" ELSE "configYaml"
    [] step = "packageJson" -> "tsConfig"
    [] step = "tsConfig" -> "srcMkdir"
    [] step = "srcMkdir" -> IF HasStub(config) THEN "srcIndex" ELSE "gitignore"
    [] step = "srcIndex" -> "gitignore"
    [] step = "configYaml" -> "configReadme"
    [] step = "configReadme" -> "gitignore"
    [] step = "gitignore" -> "workflowsMkdir"
    [] step = "workflowsMkdir" -> "ciYml"
    [] step = "ciYml" -> "readme"
    [] step = "readme" -> "gitAdd"
    [] step = "gitAdd" -> "gitCommit"
    [] step = "gitCommit" -> "ghCreate"

Put(files, name, content) ==
  [f \in DOMAIN files \cup {name} |-> IF f = name THEN content ELSE files[f]]

\* initializeRepo returns: the for-loop of main takes the next descriptor, or ends
Return ==
  IF idx < NumRepos
    THEN idx' = idx + 1 /\ pc' = "access"
    ELSE idx' = idx /\ pc' = "summary"

\* variant: the exception is caught per descriptor and the loop goes on
ThrowIsolated ==
  IF idx < NumRepos
    THEN idx' = idx + 1 /\ pc' = "access"
    ELSE idx' = idx /\ pc' = "summary"

\* an exception leaves initializeRepo and the for-loop: the promise of main rejects
Throw == pc' = "rejected" /\ idx' = idx

\* what runCommand prints
RunCommandLines(cmd, ok) ==
  IF ok THEN <<Line("cmd", cmd)>> ELSE <<Line("cmd", cmd), Line("cmdFailed", cmd)>>

\* an awaited fs call of the current descriptor: it takes effect, or it throws
FsStep(step, by, op, target, newDir) ==
  /\ pc = step
  /\ \E ok \in BOOLEAN :
       /\ effects' = Append(effects, Effect(by, op, target, ok))
       /\ IF ok
            THEN /\ fs' = [fs EXCEPT ![repoPath] = newDir]
                 /\ pc' = NextPc(step, cur)
                 /\ idx' = idx
            ELSE /\ fs' = fs
                 /\ Throw
  /\ UNCHANGED <<remote, run, console, exitCode, runLog>>

\* an awaited runCommand of git in the current directory: it takes effect, or it throws
GitStep(step, cmd, newDir) ==
  /\ pc = step
  /\ \E ok \in BOOLEAN :
       /\ effects' = Append(effects, Effect("initializeRepo", "exec", cmd, ok))
       /\ console' = console \o RunCommandLines(cmd, ok)
       /\ IF ok
            THEN /\ fs' = [fs EXCEPT ![repoPath] = newDir]
                 /\ pc' = NextPc(step, cur)
                 /\ idx' = idx
            ELSE /\ fs' = fs
                 /\ Throw
  /\ UNCHANGED <<remote, run, exitCode, runLog>>

WithFile(name, content) ==
  [fs[repoPath] EXCEPT !.files = Put(@, name, content)]

WithDir(name) == [fs[repoPath] EXCEPT !.dirs = @ \cup {name}]

\* main prints its banner and enters the for-loop
Main ==
  /\ pc = "main"
  /\ console' = Append(console, Line("banner", "Initializing missing Cloudflare Studio repositories..."))
  /\ pc' = "access"
  /\ idx' = 1
  /\ UNCHANGED <<fs, remote, run, exitCode, effects, createdInRun, runLog>>

\* initializeRepo up to the existence check: skip, or go on to create
Access ==
  /\ pc = "access"
  /\ IF Exists(repoPath)
       THEN /\ console' = console \o <<Line("creating", cur.name), Line("skip", cur.name)>>
            /\ Return
       ELSE /\ console' = Append(console, Line("creating", cur.name))
            /\ pc' = "mkdir"
            /\ idx' = idx
  /\ UNCHANGED <<fs, remote, run, exitCode, effects, createdInRun, runLog>>

\* fs.mkdir(repoPath, { recursive: true }): no error and no change when it exists
Mkdir ==
  /\ FsStep("mkdir", "initializeRepo", "mkdir", repoPath,
            [fs[repoPath] EXCEPT !.exists = TRUE])
  /\ createdInRun' =
       IF pc' # "rejected" /\ ~fs[repoPath].exists
         THEN [createdInRun EXCEPT ![repoPath] = run]
         ELSE createdInRun

GitInit ==
  /\ GitStep("gitInit", "git init", [fs[repoPath] EXCEPT !.git = TRUE])
  /\ UNCHANGED createdInRun

CreatePackageJson ==
  /\ FsStep("packageJson", "createPackageJson", "writeFile", "package.json",
            WithFile("package.json", PackageJson(cur)))
  /\ UNCHANGED createdInRun

CreateTsConfig ==
  /\ FsStep("tsConfig", "createTsConfig", "writeFile", "tsconfig.json",
            WithFile("tsconfig.json", TsConfig))
  /\ UNCHANGED createdInRun

CreateSourceFilesMkdir ==
  /\ FsStep("srcMkdir", "createSourceFiles", "mkdir", "src", WithDir("src"))
  /\ UNCHANGED createdInRun

CreateSourceFilesWrite ==
  /\ FsStep("srcIndex", "createSourceFiles", "writeFile", "src/index.ts",
            WithFile("src/index.ts", IndexTs(cur)))
  /\ UNCHANGED createdInRun

CreateConfigFilesYaml ==
  /\ FsStep("configYaml", "createConfigFiles", "writeFile", "cfstudio.yaml",
            WithFile("cfstudio.yaml", CfstudioYaml(cur)))
  /\ UNCHANGED createdInRun

CreateConfigFilesReadme ==
  /\ FsStep("configReadme", "createConfigFiles", "writeFile", "README.md",
            WithFile("README.md", UsageReadme(cur)))
  /\ UNCHANGED createdInRun

CreateGitignore ==
  /\ FsStep("gitignore", "createGitignore", "writeFile", ".gitignore",
            WithFile(".gitignore", Gitignore))
  /\ UNCHANGED createdInRun

CreateGitHubActionsMkdir ==
  /\ FsStep("workflowsMkdir", "createGitHubActions", "mkdir", ".github/workflows",
            WithDir(".github/workflows"))
  /\ UNCHANGED createdInRun

CreateGitHubActionsWrite ==
  /\ FsStep("ciYml", "createGitHubActions", "writeFile", ".github/workflows/ci.yml",
            WithFile(".github/workflows/ci.yml", CiWorkflow(cur)))
  /\ UNCHANGED createdInRun

CreateReadme ==
  /\ FsStep("readme", "createReadme", "writeFile", "README.md",
            WithFile("README.md", GeneralReadme(cur)))
  /\ UNCHANGED createdInRun

\* git add . : the index becomes the working tree
GitAdd ==
  /\ GitStep("gitAdd", "git add .",
             [fs[repoPath] EXCEPT !.staged = TRUE, !.index = fs[repoPath].files])
  /\ UNCHANGED createdInRun

\* git commit -m ... : one snapshot of the index
GitCommit ==
  /\ GitStep("gitCommit", GitCommitCmd(cur),
             [fs[repoPath] EXCEPT !.commits =
                Append(@, [message |-> CommitMessage(cur), tree |-> fs[repoPath].index])])
  /\ UNCHANGED createdInRun

\* variant: no try/catch around the gh command
GhRethrown(ok) ==
  /\ console' = console \o RunCommandLines(GhCmd(cur), ok)
                  \o (IF ok THEN <<Line("pushed", cur.name)>> ELSE <<>>)
  /\ IF ok THEN Return ELSE Throw

\* what initializeRepo does after the gh command: success line, or the catch block
GhHandled(ok) ==
  /\ console' = console \o RunCommandLines(GhCmd(cur), ok)
                  \o <<IF ok THEN Line("pushed", cur.name) ELSE Line("warning", cur.name)>>
  /\ Return

\* gh repo create ... --push inside try/catch; it may fail before or after creating the remote
GhRepoCreate ==
  /\ pc = "ghCreate"
  /\ \E outcome \in {"pushed", "created", "none"} :
       /\ effects' = Append(effects,
            Effect("initializeRepo", "exec", GhCmd(cur), outcome = "pushed"))
       /\ remote' = [remote EXCEPT ![repoPath] = outcome]
       /\ GhHandled(outcome = "pushed")
  /\ UNCHANGED <<fs, run, exitCode, createdInRun, runLog>>

\* variant: the public listing is not filtered
PublicReposUnfiltered == REPOS_TO_CREATE

PublicRepos == SelectSeq(REPOS_TO_CREATE, LAMBDA r : ~r.isPrivate)

PrivateRepos == SelectSeq(REPOS_TO_CREATE, LAMBDA r : r.isPrivate)

SummaryLines(repos) ==
  [i \in 1..Len(repos) |-> Line("entry", repos[i].name \o ": " \o repos[i].description)]

\* main after the for-loop: the summary; its promise resolves and the process ends
Summary ==
  /\ pc = "summary"
  /\ console' = console
       \o <<Line("done", "All repositories initialized!"),
            Line("summary", "Repository Summary:"),
            Line("publicHeader", "Public (Open Source):")>>
       \o SummaryLines(PublicRepos)
       \o <<Line("privateHeader", "Private (Business):")>>
       \o SummaryLines(PrivateRepos)
  /\ pc' = "exited"
  /\ exitCode' = 0
  /\ runLog' = Append(runLog, "completed")
  /\ UNCHANGED <<fs, remote, idx, run, effects, createdInRun>>

\* variant: the rejection is not handled and the process fails
CatchErrorUnhandled ==
  /\ pc = "rejected"
  /\ console' = Append(console, Line("error", "console.error"))
  /\ pc' = "exited"
  /\ exitCode' = 1
  /\ runLog' = Append(runLog, "aborted")
  /\ UNCHANGED <<fs, remote, idx, run, effects, createdInRun>>

\* main().catch(console.error): the rejection is handled, printed, and the process ends
CatchError ==
  /\ pc = "rejected"
  /\ console' = Append(console, Line("error", "console.error"))
  /\ pc' = "exited"
  /\ exitCode' = 0
  /\ runLog' = Append(runLog, "aborted")
  /\ UNCHANGED <<fs, remote, idx, run, effects, createdInRun>>

\* the script is invoked again: a new process over the same filesystem and remotes
Rerun ==
  /\ pc = "exited"
  /\ run < MaxRuns
  /\ run' = run + 1
  /\ pc' = "main"
  /\ idx' = 1
  /\ console' = <<>>
  /\ exitCode' = -1
  /\ UNCHANGED <<fs, remote, effects, createdInRun, runLog>>

Next ==
  \/ Main
  \/ Access
  \/ Mkdir
  \/ GitInit
  \/ CreatePackageJson
  \/ CreateTsConfig
  \/ CreateSourceFilesMkdir
  \/ CreateSourceFilesWrite
  \/ CreateConfigFilesYaml
  \/ CreateConfigFilesReadme
  \/ CreateGitignore
  \/ CreateGitHubActionsMkdir
  \/ CreateGitHubActionsWrite
  \/ CreateReadme
  \/ GitAdd
  \/ GitCommit
  \/ GhRepoCreate
  \/ Summary
  \/ CatchError
  \/ Rerun

Spec == Init /\ [][Next]_vars

\* ---- vocabulary of the properties ----

IndexOfName(name) == CHOOSE i \in 1..NumRepos : REPOS_TO_CREATE[i].name = name

UnguardedFailure(e) == ~e.ok /\ ~StartsWith(e.target, "gh repo create")

GhAttempt(e) == e.op = "exec" /\ StartsWith(e.target, "gh repo create")

CommitAttempt(e) == e.op = "exec" /\ StartsWith(e.target, "git commit")

KindsOf(lines) == {lines[k].kind : k \in 1..Len(lines)}

\* the pass of initializeRepo on REPOS_TO_CREATE[i] ran to its end in some run
Completed(i) == \E k \in 1..Len(effects) :
  effects[k].repo = REPOS_TO_CREATE[i].name /\ GhAttempt(effects[k])

\* ---- C1 ----
\* C1: whenever an entry exists at BASE_DIR/<name> when initializeRepo starts on a
\* descriptor, the descriptor is skipped: nothing is created, written or executed, no
\* error is raised, the skip notice is printed and the loop goes on; and a run that
\* follows a completed run performs no write or command at all and prints, per
\* descriptor, only the skip notice.
SkipStep ==
  (pc = "access" /\ fs[repoPath].exists) =>
     /\ fs' = fs /\ remote' = remote /\ effects' = effects
     /\ console' = console \o <<Line("creating", cur.name), Line("skip", cur.name)>>
     /\ IF idx < NumRepos THEN pc' = "access" /\ idx' = idx + 1 ELSE pc' = "summary"

SecondRunIdle ==
  \A r \in 2..run : runLog[r - 1] = "completed" =>
     /\ \A k \in 1..Len(effects) : effects[k].run # r
     /\ r = run => KindsOf(console) \cap {"cmd", "cmdFailed", "pushed", "warning", "error"} = {}
     /\ (r = run /\ pc = "exited") =>
          \A i \in 1..NumRepos : \E k \in 1..Len(console) :
             console[k] = Line("skip", REPOS_TO_CREATE[i].name)

Phase(e) ==
  CASE e.by = "initializeRepo" /\ e.op = "mkdir" -> 1
    [] e.by = "initializeRepo" /\ e.target = "git init" -> 2
    [] e.by \in {"createPackageJson", "createTsConfig", "createSourceFiles",
                 "createConfigFiles"} -> 3
    [] e.by \in {"createGitignore", "createGitHubActions", "createReadme"} -> 4
    [] e.by = "initializeRepo" /\ e.target = "git add ." -> 5
    [] CommitAttempt(e) -> 6
    [] GhAttempt(e) -> 7
    [] OTHER -> 0

\* position in the order .gitignore, CI workflow, README of the common files
CommonRank(e) ==
  CASE e.by = "createGitignore" -> 1
    [] e.by = "createGitHubActions" -> 2
    [] e.by = "createReadme" -> 3
    [] OTHER -> 0

\* effect k of the history, against the effect before it
OrderedAt(k) ==
  LET e == effects[k]
      first == k = 1 \/ effects[k - 1].run # e.run
      prev == effects[k - 1]
  IN  /\ Phase(e) \in 1..7
      /\ first => Phase(e) = 1
      /\ ~first =>
           /\ prev.repo # e.repo =>
                /\ GhAttempt(prev)
                /\ Phase(e) = 1
                /\ IndexOfName(prev.repo) < IndexOfName(e.repo)
           /\ prev.repo = e.repo =>
                /\ prev.ok
                /\ Phase(e) \in {Phase(prev), Phase(prev) + 1}
                /\ Phase(e) = Phase(prev) => Phase(e) \in {3, 4}
                /\ (Phase(e) = 4 /\ Phase(prev) = 4) => CommonRank(prev) <= CommonRank(e)
                /\ (Phase(e) = 4 /\ Phase(prev) = 3) =>
                      prev.by \in {"createSourceFiles", "createConfigFiles"}
                /\ Phase(e) = 5 => (prev.by = "createReadme" /\ prev.op = "writeFile")
      /\ k > 1 => effects[k - 1].run <= e.run

\* C2: descriptors are processed strictly in list order with no overlap, and within a
\* descriptor the effects come in the order mkdir, git init, category files, common
\* files (.gitignore, CI workflow, README), git add, git commit, gh repo create; each
\* effect is attempted only after every earlier one has succeeded.
C2_EffectsInOrder == \A k \in 1..Len(effects) : OrderedAt(k)

C2_Witness ==
  \E k, l \in 1..Len(effects) :
    /\ k < l /\ effects[k].run = effects[l].run /\ effects[k].repo # effects[l].repo
    /\ GhAttempt(effects[k]) /\ ~effects[k].ok
    /\ GhAttempt(effects[l]) /\ effects[l].ok

\* ---- C3 ----
LastEffectOfRun(r) ==
  LET P == {k \in 1..Len(effects) : effects[k].run = r}
  IN  effects[CHOOSE k \in P : \A l \in P : l <= k]

GhStep ==
  pc = "ghCreate" =>
     /\ pc' # "rejected"
     /\ fs' = fs
     /\ IF idx < NumRepos THEN pc' = "access" /\ idx' = idx + 1 ELSE pc' = "summary"
     /\ ~effects'[Len(effects')].ok =>
          console'[Len(console')] = Line("warning", cur.name)

OnlyUnguardedAborts ==
  /\ pc = "rejected" => UnguardedFailure(LastEffectOfRun(run))
  /\ \A r \in 1..Len(runLog) :
       runLog[r] = "aborted" => UnguardedFailure(LastEffectOfRun(r))

\* C3: a failure of the gh repo create / push command is caught inside initializeRepo
\* and reduced to a warning: the step never rejects the run, it leaves the directory,
\* files and commit in place, and the loop goes on to the next descriptor or to the
\* summary; a run is aborted only by a failure of an unguarded step.
C3_GhFailureIsolated == [][GhStep]_vars /\ []OnlyUnguardedAborts

C3_Witness ==
  /\ pc = "exited" /\ runLog[run] = "completed"
  /\ \E k, l \in 1..Len(effects) :
       /\ k < l /\ effects[k].run = run /\ effects[l].run = run
       /\ GhAttempt(effects[k]) /\ ~effects[k].ok
       /\ effects[l].repo # effects[k].repo
       /\ fs[BASE_DIR \o "/" \o effects[k].repo].commits # <<>>

\* ---- C4 ----
FatalStep ==
  /\ (effects' # effects /\ UnguardedFailure(effects'[Len(effects')])) =>
        pc' = "rejected" /\ fs' = fs /\ remote' = remote
  /\ pc = "rejected" =>
        pc' = "exited" /\ fs' = fs /\ remote' = remote /\ effects' = effects
  /\ pc = "exited" => fs' = fs /\ remote' = remote /\ effects' = effects

NothingAfterFatal ==
  /\ \A k \in 1..(Len(effects) - 1) :
       /\ effects[k].run <= effects[k + 1].run
       /\ UnguardedFailure(effects[k]) => effects[k].run < effects[k + 1].run
  /\ (Len(effects) > 0 /\ effects[Len(effects)].run = run
        /\ UnguardedFailure(effects[Len(effects)])) =>
       /\ pc \in {"rejected", "exited"}
       /\ "summary" \notin KindsOf(console)
       /\ \A k \in 1..Len(console) : console[k].kind = "creating" =>
            IndexOfName(console[k].text) <= IndexOfName(effects[Len(effects)].repo)

\* C4: a failure of directory creation, of a file write, or of git init / add / commit
\* rejects the run at once: no further step of that descriptor and no step of a later
\* descriptor happens in that run, and nothing on disk or remote is rolled back.
C4_FatalFailureAborts == [][FatalStep]_vars /\ []NothingAfterFatal

C4_Witness ==
  /\ pc = "exited" /\ runLog[run] = "aborted"
  /\ idx < NumRepos
  /\ fs[repoPath].files # <<>> /\ fs[repoPath].commits = <<>>
  /\ \E j \in (idx + 1)..NumRepos : ~fs[RepoPath(REPOS_TO_CREATE[j])].exists

\* ---- C5 ----
ThrownInRun == \E k \in 1..Len(effects) : effects[k].run = run /\ UnguardedFailure(effects[k])

SummaryPrinted == "summary" \in KindsOf(console)

\* C5 as stated: the process ends normally after the summary when no unguarded step
\* throws, and with an unhandled-error exit status when one does.
C5_Original ==
  pc = "exited" =>
     /\ ~ThrownInRun => (exitCode = 0 /\ SummaryPrinted)
     /\ ThrownInRun => exitCode # 0

\* C5 amended: the process ends with exit status 0 in both cases; after the summary
\* when no unguarded step throws, and, when one throws, after the handler of
\* main().catch printed the error, without the summary.
C5_ExitStatus ==
  /\ pc # "exited" => exitCode = -1
  /\ pc = "exited" =>
       /\ exitCode = 0
       /\ ~ThrownInRun => (SummaryPrinted /\ "error" \notin KindsOf(console))
       /\ ThrownInRun => (~SummaryPrinted /\ console[Len(console)].kind = "error")

C5_Witness == pc = "exited" /\ ThrownInRun /\ exitCode = 0

\* ---- C6 ----
HeaderPos(kind) == CHOOSE k \in 1..Len(console) : console[k].kind = kind

PublicGroup == SubSeq(console, HeaderPos("publicHeader") + 1, HeaderPos("privateHeader") - 1)

PrivateGroup == SubSeq(console, HeaderPos("privateHeader") + 1, Len(console))

IsEntryOf(line, i) ==
  /\ line.kind = "entry"
  /\ line.text = REPOS_TO_CREATE[i].name \o ": " \o REPOS_TO_CREATE[i].description

GroupIs(group, private) ==
  LET members == {i \in 1..NumRepos : REPOS_TO_CREATE[i].isPrivate = private}
  IN  /\ Len(group) = Cardinality(members)
      /\ \A i \in members : \E k \in 1..Len(group) : IsEntryOf(group[k], i)
      /\ \A k, l \in 1..Len(group) : \A i, j \in members :
           (k < l /\ IsEntryOf(group[k], i) /\ IsEntryOf(group[l], j)) => i < j

\* C6: when the summary is printed every descriptor has been visited, and the public
\* group lists exactly the descriptors with isPrivate = false and the private group
\* exactly those with isPrivate = true, once each, in list order, as name: description,
\* whatever happened to each descriptor.
C6_SummaryPartition ==
  SummaryPrinted =>
     /\ GroupIs(PublicGroup, FALSE)
     /\ GroupIs(PrivateGroup, TRUE)
     /\ \A i \in 1..NumRepos : \E k \in 1..HeaderPos("summary") :
          console[k] = Line("creating", REPOS_TO_CREATE[i].name)

C6_Witness ==
  /\ SummaryPrinted
  /\ {"skip", "warning", "pushed"} \subseteq KindsOf(console)

\* ---- C7 ----
\* the directory of REPOS_TO_CREATE[i] was created and populated by a pass that ran to its end
Generated(i) == createdInRun[RepoPath(REPOS_TO_CREATE[i])] >= 1 /\ Completed(i)

FilesOf(i) == DOMAIN fs[RepoPath(REPOS_TO_CREATE[i])].files

\* C7 as stated: a completed descriptor of a category other than configuration (library,
\* app, plugin, docs) has exactly the files package.json, tsconfig.json, src/index.ts,
\* .gitignore, .github/workflows/ci.yml and README.md, and no cfstudio.yaml.
C7_Original ==
  \A i \in 1..NumRepos :
    (REPOS_TO_CREATE[i].type # "config" /\ Generated(i)) =>
       FilesOf(i) = {"package.json", "tsconfig.json", "src/index.ts", ".gitignore",
                     ".github/workflows/ci.yml", "README.md"}

\* ---- C8 ----
CommittedTree(i) == fs[RepoPath(REPOS_TO_CREATE[i])].commits[1].tree

\* C8 as stated: the tree committed for a completed descriptor of the configuration
\* category holds cfstudio.yaml and, as README.md, the short usage README written with
\* it, and holds no package.json, tsconfig.json or src/index.ts.
C8_Original ==
  \A i \in 1..NumRepos :
    (REPOS_TO_CREATE[i].type = "config" /\ Generated(i)) =>
       /\ "cfstudio.yaml" \in DOMAIN CommittedTree(i)
       /\ "README.md" \in DOMAIN CommittedTree(i)
       /\ CommittedTree(i)["README.md"] = UsageReadme(REPOS_TO_CREATE[i])
       /\ DOMAIN CommittedTree(i) \cap {"package.json", "tsconfig.json", "src/index.ts"} = {}

\* ---- C9 ----
\* dep is the organization prefix followed by some rest
OrgNamespaced(dep) ==
  \E k \in 1..(Len(dep) + 1) : dep = "@cloudflare-studio/" \o SubSeq(dep, k, Len(dep))

\* C9: the dependency map of every generated manifest has exactly the dependency
\* identifiers of its descriptor as keys; an identifier namespaced to the organization
\* maps to workspace:* and every other identifier, scoped or not, maps to latest.
C9_DependencyResolution ==
  \A i \in 1..NumRepos :
    LET config == REPOS_TO_CREATE[i]
        files == fs[RepoPath(config)].files
    IN  ("package.json" \in DOMAIN files /\ config.hasDependencies) =>
          /\ files["package.json"].hasDependencies
          /\ DOMAIN files["package.json"].dependencies = Range(config.dependencies)
          /\ \A dep \in Range(config.dependencies) :
               files["package.json"].dependencies[dep] =
                 IF OrgNamespaced(dep) THEN "workspace:*" ELSE "latest"

C9_Witness ==
  /\ "package.json" \in DOMAIN fs[BASE_DIR \o "/billing"].files
  /\ "package.json" \in DOMAIN fs[BASE_DIR \o "/analytics"].files
  /\ fs[BASE_DIR \o "/billing"].files["package.json"].dependencies["@cloudflare-studio/runtime"]
       = "workspace:*"
  /\ fs[BASE_DIR \o "/analytics"].files["package.json"].dependencies["@cloudflare/workers-types"]
       = "latest"

\* ---- C10 ----
\* the current step belongs to the pass that created p
InCreatingPass(p) ==
  /\ createdInRun[p] = run
  /\ pc \notin {"main", "access", "summary", "rejected", "exited"}
  /\ repoPath = p

NameOf(p) == (CHOOSE i \in 1..NumRepos : RepoPath(REPOS_TO_CREATE[i]) = p)

NoRepairStep ==
  \A p \in Paths :
    /\ fs[p].exists => fs'[p].exists
    /\ (fs[p].exists /\ ~InCreatingPass(p)) =>
         /\ fs'[p] = fs[p]
         /\ remote'[p] = remote[p]
         /\ effects' # effects =>
              effects'[Len(effects')].repo # REPOS_TO_CREATE[NameOf(p)].name

AttemptedOnce ==
  \A k, l \in 1..Len(effects) :
    (k < l /\ effects[k].repo = effects[l].repo) =>
       /\ (Phase(effects[k]) = 1 /\ ~effects[k].ok) \/ effects[k].run = effects[l].run
       /\ ~(CommitAttempt(effects[k]) /\ CommitAttempt(effects[l]))
       /\ ~(GhAttempt(effects[k]) /\ GhAttempt(effects[l]))

====
